---- MODULE Spec2Model ----
(***************************************************************************)
(* Infinity Admin Control Plane: the offline cache manager (the service    *)
(* worker, src/unnamed/part_000 lines 201-297) and the endpoint health     *)
(* monitor of the dashboard (src/dashboard/app.js lines 621-758).          *)
(***************************************************************************)
EXTENDS Naturals, Sequences, FiniteSets, TLC

(***************************************************************************)
(* Bounds of the model.                                                    *)
(***************************************************************************)
\* fetch events the worker handles at the same time
MaxInflight == 2
\* versions the server-side content of a URL goes through
MaxVer == 2
\* probe batches (loadGateway, loadVault) in flight at the same time
MaxBatches == 1
\* entries the persisted custom-endpoint list grows to
MaxCustom == 2
\* times a host goes down or comes back
MaxNetChanges == 1
\* loadGateway batches in flight at once where overlap is the subject
MaxOverlap == 2
\* custom endpoints stored while batches overlap
MaxOverlapCustom == 1
\* clicks and address-bar edits of the user
MaxUserActions == 2
\* values of Date.now() the state-file requests are stamped with
MaxStamp == 2
\* the model's clock advances in steps of this many milliseconds
TickMs == 5000

(***************************************************************************)
(* Service worker: constants.                                              *)
(***************************************************************************)
CACHE_NAME == "iacp-v1"
API_CACHE == "iacp-api-v1"
API_HOST == "api.github.com"
CDN_HOST == "cdnjs.cloudflare.com"
STATE_MARKER == "_STATE"

\* the origin the dashboard and its worker are served from
ORIGIN_HOST == "infinity-x-one-systems.github.io"
\* a host that has the CDN host as a proper prefix of its name
CDN_LOOKALIKE_HOST == "cdnjs.cloudflare.com.mirror.example"
TUNNEL_HOST == "vizual-x.com"

\* A URL: hostname, pathname as its "/"-separated segments ("/dashboard/"
\* is <<"dashboard", "">>), and query string.
Url(h, p, q) == [host |-> h, path |-> p, query |-> q]

PRECACHE_URLS ==
  << Url(ORIGIN_HOST, <<"dashboard", "">>, ""),
     Url(ORIGIN_HOST, <<"dashboard", "index.html">>, ""),
     Url(ORIGIN_HOST, <<"dashboard", "app.js">>, ""),
     Url(ORIGIN_HOST, <<"dashboard", "github-api.js">>, ""),
     Url(ORIGIN_HOST, <<"dashboard", "styles", "main.css">>, ""),
     Url(ORIGIN_HOST, <<"pwa", "manifest.json">>, "") >>

Range(s) == {s[i] : i \in DOMAIN s}

PrecacheSet == Range(PRECACHE_URLS)

\* cache generations left by earlier versions of the worker
OLD_CACHE_NAMES == {"iacp-v0", "iacp-api-v0"}

(***************************************************************************)
(* Requests the page issues (the inputs of the fetch listener).            *)
(***************************************************************************)
Req(m, u) == [method |-> m, url |-> u]

\* a state snapshot, the way loadStateFile asks for it
StateUrl == Url(ORIGIN_HOST, <<STATE_MARKER, "org-index.json">>, "")
\* the path marker on the CDN host: rules 3 and 4 both match
CdnStateUrl == Url(CDN_HOST, <<"mirror", STATE_MARKER, "org-index.json">>, "")
ApiUserUrl == Url(API_HOST, <<"user">>, "")
\* the path marker on the API host: rules 2 and 3 both match
ApiStateUrl == Url(API_HOST, <<"repos", "o", "r", "contents", STATE_MARKER, "org-index.json">>, "")
CdnUrl == Url(CDN_HOST, <<"ajax", "libs", "monaco-editor", "loader.min.js">>, "")
\* not the CDN host, and not in the precache manifest
LookalikeUrl == Url(CDN_LOOKALIKE_HOST, <<"ajax", "libs", "loader.min.js">>, "")
ShellUrl == Url(ORIGIN_HOST, <<"dashboard", "app.js">>, "")
TunnelUrl == Url(TUNNEL_HOST, <<"">>, "")

Requests ==
  { Req("GET", StateUrl), Req("GET", CdnStateUrl), Req("GET", ApiUserUrl),
    Req("GET", ApiStateUrl), Req("GET", CdnUrl), Req("GET", LookalikeUrl),
    Req("GET", ShellUrl), Req("HEAD", TunnelUrl) }

(***************************************************************************)
(* Responses and the values a handler passes around.                       *)
(***************************************************************************)
Response(t, s, b) == [js |-> "response", type |-> t, status |-> s, body |-> b]

\* JavaScript null / undefined (no cached copy, the value of .catch(() => null))
Null == [js |-> "null", type |-> "", status |-> 0, body |-> ""]
\* a rejected fetch (TypeError): what the page sees as a network error
NetError == [js |-> "error", type |-> "", status |-> 0, body |-> ""]

\* Response.ok: status in the range 200-299
Ok(r) == r.js = "response" /\ r.status >= 200 /\ r.status <= 299

Body(v) == "v" \o ToString(v)

\* new Response('{"error":"offline"}', {headers: {'Content-Type': 'application/json'}})
OfflineJson == Response("default", 200, "{\"error\":\"offline\"}")
\* new Response('Offline', {status: 503})
Offline503 == Response("default", 503, "Offline")
\* new Response('{}', {headers: {'Content-Type': 'application/json'}})
EmptyJson == Response("default", 200, "{}")

\* url.pathname.includes('/_STATE/'): a segment "_STATE" with a "/" after it
PathIncludesMarker(path) ==
  \E i \in DOMAIN path : path[i] = STATE_MARKER /\ i < Len(path)

\* The content a URL serves while the servers are at version v: the state
\* snapshots are rewritten on a schedule, the shell and CDN assets are not.
Content(u, v) == IF PathIncludesMarker(u.path) THEN Body(v) ELSE Body(1)

\* What fetch(request) can settle to while the servers are at version v:
\* a success, a rejection, or an answer that is not ok: 404 from the origin
\* and the API, an opaque one (status 0) from the hosts scripts are loaded
\* from with no-cors.
FetchResults(u, v) ==
  { Response("basic", 200, Content(u, v)), NetError,
    IF u.host \in {CDN_HOST, CDN_LOOKALIKE_HOST}
    THEN Response("opaque", 0, "") ELSE Response("basic", 404, "Not Found") }

(***************************************************************************)
(* CacheStorage: a function from the names of the existing caches to their *)
(* entries, each a function from request URLs (GET) to responses.          *)
(***************************************************************************)
EmptyCache == [k \in {} |-> Null]

\* caches.open(name): the cache is created when it does not exist
CachesOpen(cs, name) ==
  IF name \in DOMAIN cs THEN cs
  ELSE [n \in DOMAIN cs \cup {name} |-> IF n = name THEN EmptyCache ELSE cs[n]]

\* cache.match(request) on one cache
CacheMatch(c, u) == IF u \in DOMAIN c THEN c[u] ELSE Null

\* caches.match(request): looks in every cache of the storage
CachesMatch(cs, u) ==
  IF \E n \in DOMAIN cs : u \in DOMAIN cs[n]
  THEN cs[CHOOSE n \in DOMAIN cs : u \in DOMAIN cs[n]][u]
  ELSE Null

\* cache.put(request, response) on cache `name` (opened first)
CachesPut(cs, name, u, r) ==
  LET o == CachesOpen(cs, name)
  IN  [o EXCEPT ![name] = [k \in DOMAIN o[name] \cup {u} |-> IF k = u THEN r ELSE o[name][k]]]

\* caches.delete(name)
CachesDelete(cs, name) == [n \in DOMAIN cs \ {name} |-> cs[n]]

\* what a cache generation of an earlier worker version holds
InitialEntries(name) ==
  IF name \in {"iacp-v0", CACHE_NAME}
  THEN [k \in {ShellUrl, CdnUrl} |-> Response("basic", 200, Body(1))]
  ELSE IF name = "iacp-api-v0"
  THEN [k \in {StateUrl, ApiUserUrl} |-> Response("basic", 200, Body(1))]
  ELSE [k \in {StateUrl} |-> Response("basic", 200, Body(1))]

\* the cache generations a new worker version can find
InitialCacheNames ==
  { {}, OLD_CACHE_NAMES, {"iacp-v0", API_CACHE}, OLD_CACHE_NAMES \cup {CACHE_NAME, API_CACHE} }

(***************************************************************************)
(* State.                                                                  *)
(***************************************************************************)
VARIABLES
  swState,       \* lifecycle of the worker
  skipWaiting,   \* self.skipWaiting() was called
  claimed,       \* self.clients.claim() was called
  caches,        \* the CacheStorage of the origin
  precache,      \* install: the outcome of each manifest fetch
  toDelete,      \* activate: the caches whose deletion is still pending
  atActivate,    \* the CacheStorage as the activate handler found it
  ev,            \* the fetch events in flight
  last,          \* the handler step that completed last
  serverVer      \* the version of the content the servers hold

swVars == << swState, skipWaiting, claimed, caches, precache, toDelete,
             atActivate, ev, last, serverVer >>

\* the dashboard page
VARIABLES
  localStorage,  \* the persisted configuration
  cfEl,          \* #gateway-cf-grid: the cards of the tunnel panel
  aiEl,          \* #gateway-ai-grid: the cards of the AI panel
  vaultGrid,     \* #vault-endpoint-grid: the cards of the Vault panel
  navDot,        \* #gateway-nav-dot: the sidebar indicator
  toast,         \* the toast shown last
  batches,       \* the probe batches in flight
  reachable,     \* the hosts that answer a request
  netChanges,    \* how often a host went down or came back
  uncaught,      \* the error a handler ended with last, "" when none did
  loads          \* the calls of loadStateFile, one per state file

pageVars == << localStorage, cfEl, aiEl, vaultGrid, navDot, toast, batches,
               reachable, netChanges, uncaught, loads >>

VARIABLES
  nav,           \* location.hash, State.section and the hashchange events queued
  editor,        \* State.monacoLoaded and the loader scripts of the editor
  tokenCheck     \* State.tokenValid and the validation in progress

uiVars == << nav, editor, tokenCheck >>

Slots == 1..MaxInflight

FreeSlot == [pc |-> "free", req |-> Req("", Url("", <<>>, "")), cached |-> Null]

NoLast == [req |-> Req("", Url("", <<>>, "")), branch |-> "none",
           hit |-> FALSE, net |-> Null, resp |-> Null]

(***************************************************************************)
(* install (part_000 lines 221-226)                                        *)
(***************************************************************************)
\* cache.addAll resolves only when every request was fetched with an ok
\* response; otherwise it rejects and stores nothing.
AddAllBroken(res) == \A i \in DOMAIN res : res[i] # NetError

AddAllSucceeds(res) == \A i \in DOMAIN res : Ok(res[i])

\* the entries addAll writes
AddAllEntries(c, urls, res) ==
  [k \in DOMAIN c \cup Range(urls) |->
     IF \E i \in DOMAIN urls : urls[i] = k
     THEN res[CHOOSE i \in DOMAIN urls : urls[i] = k]
     ELSE c[k]]

\* the install event is dispatched: caches.open(CACHE_NAME)
InstallStart ==
  /\ swState = "parsed"
  /\ swState' = "installing"
  /\ caches' = CachesOpen(caches, CACHE_NAME)
  /\ UNCHANGED << skipWaiting, claimed, precache, toDelete, atActivate, ev, last, serverVer >>
  /\ UNCHANGED << pageVars, uiVars >>

\* cache.addAll(PRECACHE_URLS) settles, then self.skipWaiting()
InstallAddAll ==
  /\ swState = "installing"
  /\ \E res \in [DOMAIN PRECACHE_URLS ->
                   {Response("basic", 200, Body(1)),
                    Response("basic", 404, "Not Found"), NetError}] :
       /\ precache' = res
       /\ IF AddAllSucceeds(res)
          THEN /\ caches' = [caches EXCEPT ![CACHE_NAME] =
                               AddAllEntries(caches[CACHE_NAME], PRECACHE_URLS, res)]
               /\ skipWaiting' = TRUE
               /\ swState' = "installed"
          ELSE /\ swState' = "redundant"
               /\ UNCHANGED << caches, skipWaiting >>
  /\ UNCHANGED << claimed, toDelete, atActivate, ev, last, serverVer >>
  /\ UNCHANGED << pageVars, uiVars >>

(***************************************************************************)
(* activate (part_000 lines 229-239)                                       *)
(***************************************************************************)
\* keys.filter(k => k !== CACHE_NAME && k !== API_CACHE)
StaleKeys(keys) == {k \in keys : k # CACHE_NAME /\ k # API_CACHE}

\* the worker waits only while skipWaiting() was not called; the activate
\* event is dispatched and caches.keys() resolves
ActivateStart ==
  /\ swState = "installed"
  /\ skipWaiting
  /\ swState' = "activating"
  /\ toDelete' = StaleKeys(DOMAIN caches)
  /\ atActivate' = caches
  /\ UNCHANGED << skipWaiting, claimed, caches, precache, ev, last, serverVer >>
  /\ UNCHANGED << pageVars, uiVars >>

\* one caches.delete(k) of the Promise.all completes
ActivateDelete(k) ==
  /\ swState = "activating"
  /\ k \in toDelete
  /\ caches' = CachesDelete(caches, k)
  /\ toDelete' = toDelete \ {k}
  /\ UNCHANGED << swState, skipWaiting, claimed, precache, atActivate, ev, last, serverVer >>
  /\ UNCHANGED << pageVars, uiVars >>

\* .then(() => self.clients.claim())
ClaimReadyBroken == TRUE

ClaimReady == toDelete = {}

ActivateClaim ==
  /\ swState = "activating"
  /\ ~claimed
  /\ ClaimReady
  /\ claimed' = TRUE
  /\ UNCHANGED << swState, skipWaiting, caches, precache, toDelete, atActivate, ev, last, serverVer >>
  /\ UNCHANGED << pageVars, uiVars >>

\* the promise given to waitUntil settled: the worker is activated
ActivateDone ==
  /\ swState = "activating"
  /\ claimed
  /\ toDelete = {}
  /\ swState' = "activated"
  /\ UNCHANGED << skipWaiting, claimed, caches, precache, toDelete, atActivate, ev, last, serverVer >>
  /\ UNCHANGED << pageVars, uiVars >>

(***************************************************************************)
(* fetch (part_000 lines 242-297)                                          *)
(***************************************************************************)
ClassifyMarkerFirst(req) ==
  IF req.method # "GET" THEN "passthrough"
  ELSE IF PathIncludesMarker(req.url.path) THEN "swr"
  ELSE IF req.url.host = API_HOST THEN "networkFirst"
  ELSE IF req.url.host = CDN_HOST THEN "cdn"
  ELSE "shell"

ClassifyNoMethodCheck(req) ==
  IF req.url.host = API_HOST THEN "networkFirst"
  ELSE IF PathIncludesMarker(req.url.path) THEN "swr"
  ELSE IF req.url.host = CDN_HOST THEN "cdn"
  ELSE "shell"

ClassifyCdnFirst(req) ==
  IF req.method # "GET" THEN "passthrough"
  ELSE IF req.url.host = API_HOST THEN "networkFirst"
  ELSE IF req.url.host = CDN_HOST THEN "cdn"
  ELSE IF PathIncludesMarker(req.url.path) THEN "swr"
  ELSE "shell"

\* the branch of the fetch listener a request takes (first match wins)
Classify(req) ==
  IF req.method # "GET" THEN "passthrough"
  ELSE IF req.url.host = API_HOST THEN "networkFirst"
  ELSE IF PathIncludesMarker(req.url.path) THEN "swr"
  ELSE IF req.url.host = CDN_HOST THEN "cdn"
  ELSE "shell"

\* the cache the branch hands to its helper
BranchCache(branch) == IF branch = "swr" THEN API_CACHE ELSE CACHE_NAME

CacheFirstBranches == {"cdn", "shell"}

\* JavaScript truthiness of the values of this model: only null is falsy
Truthy(v) == v.js # "null"

JsOr(a, b) == IF Truthy(a) THEN a ELSE b

\* a promise that settles to v
Promise(v) == [js |-> "promise", settled |-> v]

\* fetch(request).then(...).catch(() => null)
SwrFetchPromise(r) == Promise(IF r = NetError THEN Null ELSE r)

\* return cached || fetchPromise || new Response('{}', ...)
SwrReturn(cached, fetchPromise) == JsOr(JsOr(cached, fetchPromise), EmptyJson)

\* event.respondWith(v): v is awaited; anything but a Response is a network
\* error for the page
RespondWith(v) ==
  LET x == IF v.js = "promise" THEN v.settled ELSE v
  IN  IF x.js = "response" THEN x ELSE NetError

\* fetch(request).catch(() => new Response('{"error":"offline"}', ...))
NetworkFirstReturn(r) == IF r = NetError THEN OfflineJson ELSE r

\* cacheFirst after a miss: the fetched response, or 'Offline' 503
CacheFirstReturn(r) == IF r = NetError THEN Offline503 ELSE r

StoreIfBroken(r) == r # NetError

\* if (response.ok) cache.put(request, response.clone())
StoreIf(r) == Ok(r)

SwrStoreBroken(cs, u, r) == IF StoreIf(r) THEN CachesPut(cs, CACHE_NAME, u, r) ELSE cs

\* staleWhileRevalidate: if (response.ok) cache.put(request, response.clone())
SwrStore(cs, u, r) == IF StoreIf(r) THEN CachesPut(cs, API_CACHE, u, r) ELSE cs

CacheFirstStoreBroken(cs, u, r) ==
  IF r # NetError /\ StoreIf(r) THEN CachesPut(cs, API_CACHE, u, r) ELSE cs

\* cacheFirst: const cache = await caches.open(CACHE_NAME);
\* cache.put(request, response.clone()) for an ok response
CacheFirstStore(cs, u, r) ==
  IF r # NetError /\ StoreIf(r) THEN CachesPut(cs, CACHE_NAME, u, r) ELSE cs

Done(req, branch, hit, net, resp) ==
  [req |-> req, branch |-> branch, hit |-> hit, net |-> net, resp |-> resp]

\* a fetch event is dispatched to the active worker: the listener classifies
\* the request and calls the helper of its branch
Dispatch(s, r) ==
  /\ swState = "activated"
  /\ ev[s].pc = "free"
  /\ \A t \in Slots : t < s => ev[t].pc # "free"
  /\ LET branch == Classify(r)
     IN  IF branch = "passthrough"
         THEN /\ last' = Done(r, branch, FALSE, Null, Null)
              /\ UNCHANGED ev
         ELSE /\ ev' = [ev EXCEPT ![s] =
                   [pc |-> IF branch = "networkFirst" THEN "net" ELSE "lookup",
                    req |-> r, cached |-> Null]]
              /\ UNCHANGED last
  /\ UNCHANGED << swState, skipWaiting, claimed, caches, precache, toDelete,
                  atActivate, serverVer >>
  /\ UNCHANGED << pageVars, uiVars >>

\* staleWhileRevalidate: caches.open and cache.match resolve, the fetch is
\* started, and the cached copy (if any) answers the event at once
SwrLookup(s) ==
  /\ ev[s].pc = "lookup"
  /\ Classify(ev[s].req) = "swr"
  /\ LET opened == CachesOpen(caches, API_CACHE)
         cached == CacheMatch(opened[API_CACHE], ev[s].req.url)
     IN  /\ caches' = opened
         /\ IF Truthy(cached)
            THEN /\ ev' = [ev EXCEPT ![s].pc = "revalidate", ![s].cached = cached]
                 /\ last' = Done(ev[s].req, "swr", TRUE, Null, cached)
            ELSE /\ ev' = [ev EXCEPT ![s].pc = "net"]
                 /\ UNCHANGED last
  /\ UNCHANGED << swState, skipWaiting, claimed, precache, toDelete, atActivate, serverVer >>
  /\ UNCHANGED << pageVars, uiVars >>

\* cacheFirst: caches.match resolves; a hit answers the event
CacheFirstLookup(s) ==
  /\ ev[s].pc = "lookup"
  /\ Classify(ev[s].req) \in CacheFirstBranches
  /\ LET cached == CachesMatch(caches, ev[s].req.url)
     IN  IF Truthy(cached)
         THEN /\ ev' = [ev EXCEPT ![s] = FreeSlot]
              /\ last' = Done(ev[s].req, Classify(ev[s].req), TRUE, Null, cached)
         ELSE /\ ev' = [ev EXCEPT ![s].pc = "net"]
              /\ UNCHANGED last
  /\ UNCHANGED << swState, skipWaiting, claimed, caches, precache, toDelete,
                  atActivate, serverVer >>
  /\ UNCHANGED << pageVars, uiVars >>

\* the network-first fetch settles
NetworkFirstReply(s, r) ==
  /\ ev[s].pc = "net"
  /\ Classify(ev[s].req) = "networkFirst"
  /\ r \in FetchResults(ev[s].req.url, serverVer)
  /\ ev' = [ev EXCEPT ![s] = FreeSlot]
  /\ last' = Done(ev[s].req, "networkFirst", FALSE, r, RespondWith(NetworkFirstReturn(r)))
  /\ UNCHANGED << swState, skipWaiting, claimed, caches, precache, toDelete,
                  atActivate, serverVer >>
  /\ UNCHANGED << pageVars, uiVars >>

\* the fetch of staleWhileRevalidate settles: an ok response is put in the
\* cache; the event is answered now unless the cached copy answered it
SwrReply(s, r) ==
  /\ ev[s].pc \in {"net", "revalidate"}
  /\ Classify(ev[s].req) = "swr"
  /\ r \in FetchResults(ev[s].req.url, serverVer)
  /\ caches' = SwrStore(caches, ev[s].req.url, r)
  /\ ev' = [ev EXCEPT ![s] = FreeSlot]
  /\ last' = Done(ev[s].req, "swr", Truthy(ev[s].cached), r,
                  RespondWith(SwrReturn(ev[s].cached, SwrFetchPromise(r))))
  /\ UNCHANGED << swState, skipWaiting, claimed, precache, toDelete, atActivate, serverVer >>
  /\ UNCHANGED << pageVars, uiVars >>

\* the fetch of cacheFirst settles
CacheFirstReply(s, r) ==
  /\ ev[s].pc = "net"
  /\ Classify(ev[s].req) \in CacheFirstBranches
  /\ r \in FetchResults(ev[s].req.url, serverVer)
  /\ caches' = CacheFirstStore(caches, ev[s].req.url, r)
  /\ ev' = [ev EXCEPT ![s] = FreeSlot]
  /\ last' = Done(ev[s].req, Classify(ev[s].req), FALSE, r, RespondWith(CacheFirstReturn(r)))
  /\ UNCHANGED << swState, skipWaiting, claimed, precache, toDelete, atActivate, serverVer >>
  /\ UNCHANGED << pageVars, uiVars >>

\* the servers publish new content
ServerUpdate ==
  /\ serverVer < MaxVer
  /\ serverVer' = serverVer + 1
  /\ UNCHANGED << swState, skipWaiting, claimed, caches, precache, toDelete,
                  atActivate, ev, last >>
  /\ UNCHANGED << pageVars, uiVars >>

(***************************************************************************)
(* Dashboard: gateway and tunnel endpoints (app.js lines 621-758)          *)
(***************************************************************************)
\* setTimeout(() => controller.abort(), 5000)
PROBE_TIMEOUT_MS == 5000

\* The URL strings of the dashboard: scheme and the rest. "not-a-url" has no
\* scheme; "http://" has a scheme and no host.
PUrl(s, h) == [scheme |-> s, host |-> h]

\* the empty string, and what getItem gives for a key that is not stored
NoUrl == PUrl("", "")

Endpoint(id, label, url, group) == [id |-> id, label |-> label, url |-> url, group |-> group]

CF_ENDPOINTS ==
  << Endpoint("vizual-x", "vizual-x.com", PUrl("https", "vizual-x.com"), "cf"),
     Endpoint("infinityxai", "infinityxai.com", PUrl("https", "infinityxai.com"), "ai") >>

AI_ENDPOINTS ==
  << Endpoint("ollama-local", "Ollama (local)", PUrl("http", "localhost:11434"), "ai"),
     Endpoint("groq-api", "Groq API", PUrl("https", "api.groq.com"), "ai"),
     Endpoint("gemini-api", "Gemini API", PUrl("https", "generativelanguage.googleapis.com"), "ai") >>

\* what the user types into the forms
LabelInputs == {"", " ", "X"}
UrlInputs == {NoUrl, PUrl("", "not-a-url"), PUrl("http", ""), PUrl("https", "x.com")}
TunnelUrlInputs == {NoUrl, PUrl("https", "custom.example")}
GatewayUrlInputs == {NoUrl, PUrl("http", "")}

\* `custom-${Date.now()}-${Math.random().toString(36).substr(2, 9)}`: the
\* clock and the random suffix are inputs; nothing checks the id is new
GeneratedIds == {"custom-1700000000000-k3j9x0q2a", "custom-1700000000001-p08dfz1mm"}

\* the hosts the probes of this model go to
ProbedHosts ==
  {CF_ENDPOINTS[i].url.host : i \in DOMAIN CF_ENDPOINTS}
    \cup {AI_ENDPOINTS[i].url.host : i \in DOMAIN AI_ENDPOINTS}
    \cup {u.host : u \in {v \in UrlInputs \cup TunnelUrlInputs \cup GatewayUrlInputs :
                              v.scheme # "" /\ v.host # ""}}

\* String.prototype.trim on the label inputs
Trim(str) == IF str = " " THEN "" ELSE str

UrlParsesBroken(u) == TRUE

\* new URL(url) throws unless the string is an absolute URL
UrlParses(u) == u.scheme # "" /\ (u.scheme \in {"http", "https"} => u.host # "")

\* What is stored under a key holding JSON: nothing ("absent"), the text of
\* an array with its items ("array"), text that is no JSON ("invalid"), or
\* the text of another JSON value ("null", "object", "number").
StoredJson(kind, items) == [kind |-> kind, items |-> items]

\* JSON.stringify(custom)
StringifyCustom(items) == StoredJson("array", items)

AbsentItem == StoredJson("absent", << >>)

\* what the key can hold that addGatewayEndpoint did not write
ForeignItems ==
  { StoredJson("invalid", << >>), StoredJson("null", << >>),
    StoredJson("object", << >>), StoredJson("number", << >>) }

\* a list another version of the dashboard stored: an entry of a group other
\* than 'cf', which loadGateway renders in the AI panel
OtherGroupItems ==
  { StoredJson("array",
      << Endpoint("custom-1600000000000-a1b2c3d4e", "My LLM", PUrl("https", "x.com"), "ai") >>) }

JsArray(items) == [js |-> "array", items |-> items]

\* try { custom = JSON.parse(getItem(GW_KEY_CUSTOM) || '[]') } catch { custom = [] }:
\* the value custom holds afterwards. Only a SyntaxError of JSON.parse is
\* caught; the text of another JSON value parses to that value.
JsonParseCaught(item) ==
  IF item.kind = "array" THEN JsArray(item.items)
  ELSE IF item.kind \in {"absent", "invalid"} THEN JsArray(<< >>)
  ELSE [js |-> item.kind, items |-> << >>]

\* custom.filter(...) and custom.push(...) are functions of an array only;
\* on null, a number or a plain object the call throws a TypeError
HasArrayMethods(v) == v.js = "array"

ParseCustom(store) == JsonParseCaught(store.iacp_gw_custom).items

OverrideBroken(ep, store) ==
  IF ep.id = "vizual-x" /\ store.iacp_gw_cf_gateway_url # NoUrl
  THEN [ep EXCEPT !.url = store.iacp_gw_cf_gateway_url]
  ELSE ep

\* CF_ENDPOINTS.map(...): a built-in tunnel endpoint takes the saved URL of its
\* own id when one is stored
Override(ep, store) ==
  IF ep.id = "vizual-x" /\ store.iacp_gw_cf_tunnel_url # NoUrl
  THEN [ep EXCEPT !.url = store.iacp_gw_cf_tunnel_url]
  ELSE IF ep.id = "infinityxai" /\ store.iacp_gw_cf_gateway_url # NoUrl
  THEN [ep EXCEPT !.url = store.iacp_gw_cf_gateway_url]
  ELSE ep

CfEndpoints(store) == [i \in DOMAIN CF_ENDPOINTS |-> Override(CF_ENDPOINTS[i], store)]

IsCfGroup(c) == c.group = "cf"
IsNotCfGroup(c) == c.group # "cf"

GatewayCfListBroken(store) == CfEndpoints(store)

\* [...allCf, ...cfCustom]
GatewayCfList(store) == CfEndpoints(store) \o SelectSeq(ParseCustom(store), IsCfGroup)

GatewayAiListBroken(store) == AI_ENDPOINTS \o ParseCustom(store)

\* allAi = [...AI_ENDPOINTS, ...custom.filter(c => c.group !== 'cf')]
GatewayAiList(store) == AI_ENDPOINTS \o SelectSeq(ParseCustom(store), IsNotCfGroup)

\* endpointCardHtml(ep, status)
Card(ep, status) == [label |-> ep.label, url |-> ep.url, id |-> ep.id, status |-> status]

CheckingCards(eps) == [i \in DOMAIN eps |-> Card(eps[i], "checking")]

\* probeEndpoint: what the fetch ended with decides the status
ProbeStatusBroken(outcome) == IF outcome = "error" THEN "offline" ELSE "online"

ProbeStatus(outcome) == IF outcome = "response" THEN "online" ELSE "offline"

\* statusMap[ep.id] = results[i], in the order of allEndpoints: the last
\* endpoint of an id decides the id's slot
StatusMap(eps, res, id) ==
  IF \E i \in DOMAIN eps : eps[i].id = id
  THEN res[CHOOSE i \in DOMAIN eps :
             /\ eps[i].id = id
             /\ \A j \in DOMAIN eps : eps[j].id = id => j <= i]
  ELSE "offline"

\* eps.map(ep => endpointCardHtml(ep, statusMap[ep.id] || 'offline'))
StatusCardsBroken(eps, all, res) ==
  [i \in DOMAIN eps |->
     Card(eps[i], IF StatusMap(all, res, eps[i].id) = "online" THEN "online" ELSE "checking")]

StatusCards(eps, all, res) ==
  [i \in DOMAIN eps |-> Card(eps[i], StatusMap(all, res, eps[i].id))]

\* loadVault: cfEndpoints.map((ep, i) => endpointCardHtml(ep, statuses[i]))
IndexCards(eps, res) == [i \in DOMAIN eps |-> Card(eps[i], res[i])]

\* [...allCf, ...cfCustom].some(ep => statusMap[ep.id] === 'online')
CfOnline(cf, all, res) == \E i \in DOMAIN cf : StatusMap(all, res, cf[i].id) = "online"

IdleBatch == [pc |-> "idle", kind |-> "", cf |-> << >>, ai |-> << >>, res |-> << >>, age |-> 0]

AllEndpointsBroken(b) == b.ai \o b.cf

\* allEndpoints = [...allCf, ...cfCustom, ...allAi]
AllEndpoints(b) == b.cf \o b.ai

Pending(b) == {i \in DOMAIN b.res : b.res[i] = "pending"}

TimerDue(b) == b.age * TickMs >= PROBE_TIMEOUT_MS

\* loadGateway up to its await: the panels show every endpoint as checking
\* and every probe is issued
StartGateway(b, store) ==
  LET cf == GatewayCfList(store)
      ai == GatewayAiList(store)
  IN  IF HasArrayMethods(JsonParseCaught(store.iacp_gw_custom))
      THEN /\ cfEl' = CheckingCards(cf)
           /\ aiEl' = CheckingCards(ai)
           /\ batches' = [batches EXCEPT ![b] =
                [pc |-> "probing", kind |-> "gateway", cf |-> cf, ai |-> ai,
                 res |-> [i \in 1..(Len(cf) + Len(ai)) |-> "pending"], age |-> 0]]
           /\ uncaught' = ""
           /\ UNCHANGED << vaultGrid, navDot >>
      ELSE \* custom.filter is not a function: the call ends before it renders
           /\ uncaught' = "TypeError"
           /\ UNCHANGED << cfEl, aiEl, batches, vaultGrid, navDot >>

\* the slot of the model a call takes: one that holds no batch in flight
FreeBatch(b) ==
  /\ batches[b].pc # "probing"
  /\ \A c \in DOMAIN batches : c < b => batches[c].pc = "probing"

\* the Gateway section is opened, or "Probe all" is clicked
LoadGateway(b) ==
  /\ FreeBatch(b)
  /\ StartGateway(b, localStorage)
  /\ UNCHANGED << localStorage, toast, reachable, netChanges, loads >>
  /\ UNCHANGED << swVars, uiVars >>

\* the Vault section is opened: loadVault up to its await
LoadVault(b) ==
  /\ FreeBatch(b)
  /\ LET cf == CfEndpoints(localStorage)
     IN  /\ vaultGrid' = CheckingCards(cf)
         /\ batches' = [batches EXCEPT ![b] =
              [pc |-> "probing", kind |-> "vault", cf |-> cf, ai |-> << >>,
               res |-> [i \in 1..Len(cf) |-> "pending"], age |-> 0]]
  /\ UNCHANGED << localStorage, cfEl, aiEl, navDot, toast, reachable, netChanges, uncaught, loads >>
  /\ UNCHANGED << swVars, uiVars >>

\* renderVaultEndpoints(items)
RenderVaultEndpoints(items) == items

BatchSettledAllOnline(res) == \A j \in DOMAIN res : res[j] = "online"

BatchSettledBroken(res) == \E j \in DOMAIN res : res[j] # "pending"

\* await Promise.all(...): resumes when every probe of the batch has settled
BatchSettled(res) == \A j \in DOMAIN res : res[j] # "pending"

\* probe i of batch b settles; when it is the last one of the batch, the
\* await of Promise.all resumes and the batch renders its results (the slot
\* keeps the results until the next call takes it)
Settle(b, i, status) ==
  LET res == [batches[b].res EXCEPT ![i] = status]
      cf == batches[b].cf
      ai == batches[b].ai
      all == AllEndpoints(batches[b])
  IN  IF ~BatchSettled(res)
      THEN /\ batches' = [batches EXCEPT ![b].res = res]
           /\ UNCHANGED << cfEl, aiEl, vaultGrid, navDot >>
      ELSE /\ batches' = [batches EXCEPT ![b].res = res, ![b].pc = "done"]
           /\ IF batches[b].kind = "gateway"
              THEN /\ cfEl' = StatusCards(cf, all, res)
                   /\ aiEl' = StatusCards(ai, all, res)
                   /\ navDot' = IF CfOnline(cf, all, res) THEN "online" ELSE "warning"
                   /\ vaultGrid' = RenderVaultEndpoints(StatusCards(cf, all, res))
              ELSE /\ vaultGrid' = IndexCards(cf, res)
                   /\ UNCHANGED << cfEl, aiEl, navDot >>

\* the fetch of a probe gets a response (of any status, opaque included)
\* before the abort timer fires
ProbeRespond(b, i) ==
  /\ batches[b].pc = "probing"
  /\ i \in Pending(batches[b])
  /\ ~TimerDue(batches[b])
  /\ UrlParses(AllEndpoints(batches[b])[i].url)
  /\ AllEndpoints(batches[b])[i].url.host \in reachable
  /\ Settle(b, i, ProbeStatus("response"))
  /\ UNCHANGED << localStorage, toast, reachable, netChanges, uncaught, loads >>
  /\ UNCHANGED << swVars, uiVars >>

\* the fetch of a probe rejects: the URL does not parse, or the host cannot
\* be reached
ProbeFail(b, i) ==
  /\ batches[b].pc = "probing"
  /\ i \in Pending(batches[b])
  /\ \/ ~UrlParses(AllEndpoints(batches[b])[i].url)
     \/ AllEndpoints(batches[b])[i].url.host \notin reachable
  /\ Settle(b, i, ProbeStatus("error"))
  /\ UNCHANGED << localStorage, toast, reachable, netChanges, uncaught, loads >>
  /\ UNCHANGED << swVars, uiVars >>

\* the abort timer of a probe fires: the fetch rejects with AbortError
ProbeTimeout(b, i) ==
  /\ batches[b].pc = "probing"
  /\ i \in Pending(batches[b])
  /\ TimerDue(batches[b])
  /\ Settle(b, i, ProbeStatus("abort"))
  /\ UNCHANGED << localStorage, toast, reachable, netChanges, uncaught, loads >>
  /\ UNCHANGED << swVars, uiVars >>

\* Time passes. A host that is reachable answers before the timer of a probe
\* to it is due; a host that is not may leave the probe hanging.
Tick ==
  /\ \E b \in DOMAIN batches : batches[b].pc = "probing" /\ ~TimerDue(batches[b])
  /\ \A b \in DOMAIN batches : \A i \in Pending(batches[b]) :
        (batches[b].age + 1) * TickMs >= PROBE_TIMEOUT_MS =>
          \/ ~UrlParses(AllEndpoints(batches[b])[i].url)
          \/ AllEndpoints(batches[b])[i].url.host \notin reachable
  /\ batches' = [b \in DOMAIN batches |->
       IF batches[b].pc = "probing" /\ ~TimerDue(batches[b])
       THEN [batches[b] EXCEPT !.age = @ + 1] ELSE batches[b]]
  /\ UNCHANGED << localStorage, cfEl, aiEl, vaultGrid, navDot, toast, reachable, netChanges, uncaught, loads >>
  /\ UNCHANGED << swVars, uiVars >>

\* a host goes down or comes back
NetChange(h) ==
  /\ netChanges < MaxNetChanges
  /\ netChanges' = netChanges + 1
  /\ reachable' = IF h \in reachable THEN reachable \ {h} ELSE reachable \cup {h}
  /\ UNCHANGED << localStorage, cfEl, aiEl, vaultGrid, navDot, toast, batches,
                  uncaught, loads >>
  /\ UNCHANGED << swVars, uiVars >>

PushCustomBroken(custom, ep) == << ep >>

\* custom.push({ id, label, url, icon, group: 'cf' })
PushCustom(custom, ep) == Append(custom, ep)

\* addGatewayEndpoint with the two form fields as typed
AddGatewayEndpoint(labelIn, urlIn) ==
  /\ UNCHANGED << swVars, uiVars >>
  /\ UNCHANGED << reachable, netChanges, loads >>
  /\ LET label == Trim(labelIn)
         parsed == JsonParseCaught(localStorage.iacp_gw_custom)
     IN
      IF label = "" \/ urlIn = NoUrl
      THEN /\ toast' = "Enter both a label and a URL"
           /\ uncaught' = ""
           /\ UNCHANGED << localStorage, cfEl, aiEl, vaultGrid, navDot, batches >>
      ELSE IF ~UrlParses(urlIn)
      THEN /\ toast' = "Invalid URL"
           /\ uncaught' = ""
           /\ UNCHANGED << localStorage, cfEl, aiEl, vaultGrid, navDot, batches >>
      ELSE IF ~HasArrayMethods(parsed)
      THEN \* custom.push is not a function: nothing is stored or shown
           /\ uncaught' = "TypeError"
           /\ UNCHANGED << localStorage, cfEl, aiEl, vaultGrid, navDot, batches, toast >>
      ELSE /\ Len(parsed.items) < MaxCustom
           /\ \E b \in DOMAIN batches, id \in GeneratedIds :
                /\ FreeBatch(b)
                /\ LET custom == PushCustom(parsed.items, Endpoint(id, label, urlIn, "cf"))
                       store == [localStorage EXCEPT
                                   !.iacp_gw_custom = StringifyCustom(custom)]
                   IN  /\ localStorage' = store
                       /\ toast' = "Added"
                       /\ StartGateway(b, store)

ClearedStoreBroken(store) ==
  [store EXCEPT !.iacp_gw_custom = AbsentItem, !.iacp_gw_cf_tunnel_url = NoUrl,
                !.iacp_gw_cf_gateway_url = NoUrl, !.iacp_gh_token = "",
                !.iacp_gh_org = "", !.iacp_theme = ""]

\* localStorage.removeItem(GW_KEY_CUSTOM)
ClearedStore(store) == [store EXCEPT !.iacp_gw_custom = AbsentItem]

\* clearCustomEndpoints
ClearCustomEndpoints(b) ==
  /\ FreeBatch(b)
  /\ LET store == ClearedStore(localStorage)
     IN  /\ localStorage' = store
         /\ toast' = "Custom endpoints cleared"
         /\ StartGateway(b, store)
  /\ UNCHANGED << reachable, netChanges, loads >>
  /\ UNCHANGED << swVars, uiVars >>

\* saveTunnelConfig with the two settings fields as typed
SaveTunnelConfig(cfUrl, gwUrl) ==
  /\ localStorage' =
       [localStorage EXCEPT
          !.iacp_gw_cf_tunnel_url = IF cfUrl # NoUrl THEN cfUrl ELSE @,
          !.iacp_gw_cf_gateway_url = IF gwUrl # NoUrl THEN gwUrl ELSE @]
  /\ toast' = "Tunnel config saved"
  /\ UNCHANGED << cfEl, aiEl, vaultGrid, navDot, batches, reachable, netChanges, uncaught, loads >>
  /\ UNCHANGED << swVars, uiVars >>

(***************************************************************************)
(* State files (app.js lines 1394-1406)                                    *)
(***************************************************************************)
\* loadOrgIndex, loadProjectMap, loadMemorySnapshot
STATE_FILES == {"org-index.json", "project-map.json", "memory-snapshot.json"}

IdleLoad == [pc |-> "idle", res |-> Null, result |-> ""]

\* a page that is no JSON, as a host answers for a path it does not know
HtmlBody == "<!DOCTYPE html>"

\* what fetch(`${STATE_BASE}_STATE/${filename}?t=...`) can settle to
StateFileResponses ==
  { NetError, Response("basic", 404, "Not Found"),
    Response("basic", 200, Body(1)), Response("basic", 200, HtmlBody) }

\* res.json() fulfils for a body that is JSON text and rejects otherwise
IsJsonText(body) == body \in {Body(v) : v \in 1..MaxVer} \cup {"{}", OfflineJson.body}

\* loadStateFile(filename) up to its await: the fetch is issued
LoadStateFile(f) ==
  /\ loads[f].pc \in {"idle", "resolved", "rejected"}
  /\ loads' = [loads EXCEPT ![f] = [pc |-> "fetching", res |-> Null, result |-> ""]]
  /\ UNCHANGED << localStorage, cfEl, aiEl, vaultGrid, navDot, toast, batches,
                  reachable, netChanges, uncaught >>
  /\ UNCHANGED << swVars, uiVars >>

\* the fetch settles inside the try block: a rejection, and the Error thrown
\* for a response that is not ok, are caught and give null; for an ok
\* response the block returns the promise of res.json() and is left
StateFetchSettle(f, r) ==
  /\ loads[f].pc = "fetching"
  /\ loads' = [loads EXCEPT ![f] =
       IF r = NetError \/ ~Ok(r)
       THEN [pc |-> "resolved", res |-> r, result |-> "null"]
       ELSE [pc |-> "parsing", res |-> r, result |-> ""]]
  /\ UNCHANGED << localStorage, cfEl, aiEl, vaultGrid, navDot, toast, batches,
                  reachable, netChanges, uncaught >>
  /\ UNCHANGED << swVars, uiVars >>

\* the promise of res.json() settles, and with it the promise of
\* loadStateFile: the catch block does not see a rejection of a promise the
\* try block returned without awaiting it, and the loader that awaits
\* loadStateFile ends with it
StateJsonSettle(f) ==
  /\ loads[f].pc = "parsing"
  /\ IF IsJsonText(loads[f].res.body)
     THEN /\ loads' = [loads EXCEPT ![f].pc = "resolved", ![f].result = "object"]
          /\ UNCHANGED uncaught
     ELSE /\ loads' = [loads EXCEPT ![f].pc = "rejected", ![f].result = "SyntaxError"]
          /\ uncaught' = "SyntaxError"
  /\ UNCHANGED << localStorage, cfEl, aiEl, vaultGrid, navDot, toast, batches,
                  reachable, netChanges >>
  /\ UNCHANGED << swVars, uiVars >>

NextStateFile ==
  \/ \E f \in STATE_FILES : LoadStateFile(f)
  \/ \E f \in STATE_FILES : \E r \in StateFileResponses : StateFetchSettle(f, r)
  \/ \E f \in STATE_FILES : StateJsonSettle(f)

(***************************************************************************)
(* Dashboard: routing (app.js lines 45-99, 1047-1083)                      *)
(***************************************************************************)
SECTIONS ==
  << "overview", "projects", "discovery", "sandbox", "validation", "industry",
     "memory", "vault", "editor", "roadmap", "gateway", "settings" >>

\* the data-section values of the nav items the user clicks
NavItems == {"overview", "vault", "editor", "gateway"}

\* the fragments the page is opened with, or the user types in the address bar
HashInputs == {"", "bogus", "gateway"}

NavSectionBroken(section) == section

\* if (!SECTIONS.includes(section)) section = 'overview'
NavSection(section) ==
  IF \E i \in DOMAIN SECTIONS : SECTIONS[i] = section THEN section ELSE "overview"

\* State.section as the State literal computes it:
\* location.hash.replace('#', '') || 'overview'
HashOrOverview(hash) == IF hash = "" THEN "overview" ELSE hash

\* the state of the router when the page was opened with this fragment
LoadedNav(hash) ==
  [hash |-> hash, section |-> HashOrOverview(hash), events |-> 0, calls |-> 0,
   loaded |-> "", origin |-> "load", actions |-> 0, booted |-> FALSE]

\* navigate(section): State.section and location.hash are assigned, and
\* loadSection(section) is called; assigning a fragment that differs from
\* the current one queues one hashchange event
Navigate(n, section) ==
  LET t == NavSection(section)
  IN  [n EXCEPT !.section = t,
                !.hash = t,
                !.events = IF n.hash = t THEN @ ELSE @ + 1,
                !.calls = @ + 1,
                !.loaded = t]

(***************************************************************************)
(* Dashboard: the Monaco editor (app.js lines 544-578)                     *)
(***************************************************************************)
IdleEditor ==
  [monacoLoaded |-> FALSE, scripts |-> 0, loading |-> 0, requires |-> 0,
   created |-> 0]

\* loadEditor(): returns when State.monacoLoaded is set; otherwise a loader
\* script is appended to the document head
LoadEditor(e) ==
  IF e.monacoLoaded THEN e
  ELSE [e EXCEPT !.scripts = @ + 1, !.loading = @ + 1]

\* loadSection(section): the loader of the editor section is loadEditor; the
\* loaders of the other sections leave the editor alone
LoadSection(e, section) == IF section = "editor" THEN LoadEditor(e) ELSE e

\* init(): the hashchange listener is registered and navigate(State.section)
\* is called
InitNavigate ==
  /\ ~nav.booted
  /\ nav' = Navigate([nav EXCEPT !.booted = TRUE, !.origin = "init"], nav.section)
  /\ editor' = LoadSection(editor, NavSection(nav.section))
  /\ UNCHANGED tokenCheck
  /\ UNCHANGED << swVars, pageVars >>

\* a click on a nav item: navigate(el.dataset.section)
ClickNavItem(section) ==
  /\ nav.booted
  /\ nav.actions < MaxUserActions
  /\ nav' = Navigate([nav EXCEPT !.calls = 0, !.origin = "click", !.actions = @ + 1],
                     section)
  /\ editor' = LoadSection(editor, NavSection(section))
  /\ UNCHANGED tokenCheck
  /\ UNCHANGED << swVars, pageVars >>

\* the user changes the fragment in the address bar
EditHash(hash) ==
  /\ nav.booted
  /\ nav.actions < MaxUserActions
  /\ hash # nav.hash
  /\ nav' = [nav EXCEPT !.hash = hash, !.events = @ + 1, !.calls = 0,
                        !.origin = "hash", !.actions = @ + 1]
  /\ UNCHANGED << editor, tokenCheck >>
  /\ UNCHANGED << swVars, pageVars >>

\* the hashchange listener runs for a queued event:
\* navigate(location.hash.replace('#', '') || 'overview')
HashChange ==
  /\ nav.booted
  /\ nav.events > 0
  /\ nav' = Navigate([nav EXCEPT !.events = @ - 1], HashOrOverview(nav.hash))
  /\ editor' = LoadSection(editor, NavSection(HashOrOverview(nav.hash)))
  /\ UNCHANGED tokenCheck
  /\ UNCHANGED << swVars, pageVars >>

\* script.onload: require.config, and require(['vs/editor/editor.main'], cb)
\* starts loading the editor's modules
ScriptOnload ==
  /\ editor.loading > 0
  /\ editor' = [editor EXCEPT !.loading = @ - 1, !.requires = @ + 1]
  /\ UNCHANGED << nav, tokenCheck >>
  /\ UNCHANGED << swVars, pageVars >>

\* the loader script fails to load: no handler is registered for it
ScriptError ==
  /\ editor.loading > 0
  /\ editor' = [editor EXCEPT !.loading = @ - 1]
  /\ UNCHANGED << nav, tokenCheck >>
  /\ UNCHANGED << swVars, pageVars >>

\* the callback of require: State.monacoLoaded = true and
\* State.monacoEditor = monaco.editor.create(container, ...)
RequireCallback ==
  /\ editor.requires > 0
  /\ editor' = [editor EXCEPT !.requires = @ - 1, !.monacoLoaded = TRUE,
                              !.created = @ + 1]
  /\ UNCHANGED << nav, tokenCheck >>
  /\ UNCHANGED << swVars, pageVars >>

NextRouting ==
  \/ InitNavigate
  \/ \E section \in NavItems : ClickNavItem(section)
  \/ \E hash \in HashInputs : EditHash(hash)
  \/ HashChange
  \/ ScriptOnload
  \/ ScriptError
  \/ RequireCallback

(***************************************************************************)
(* Dashboard: token validation (app.js lines 863-880, 1139-1173)           *)
(***************************************************************************)
\* the trimmed values of #settings-token and #settings-org
TokenInputs == {"", "ghp_new"}
OrgInputs == {"", "other-org"}

IdleTokenCheck ==
  [pc |-> "idle", tokenValid |-> "null", controlled |-> FALSE, net |-> Null,
   resp |-> Null]

\* What fetch settles to in the page for a request of the network-first
\* branch: the answer of the active worker's listener, or the network's own
\* when no worker controls the page.
PageFetch(controlled, req, r) ==
  IF controlled /\ Classify(req) = "networkFirst"
  THEN RespondWith(NetworkFirstReturn(r))
  ELSE r

\* validateToken(): ghFetch throws when fetch rejects or the response is not
\* ok, and res.json() rejects on a body that is not JSON; each of them is
\* caught and gives valid: false
ValidateToken(resp) == resp # NetError /\ Ok(resp) /\ IsJsonText(resp.body)

\* handleSettingsSave() up to its await: the inputs that are not empty are
\* stored and validateToken() issues its request
HandleSettingsSave(tokenIn, orgIn) ==
  /\ tokenCheck.pc # "validating"
  /\ localStorage' = [localStorage EXCEPT
                        !.iacp_gh_token = IF tokenIn # "" THEN tokenIn ELSE @,
                        !.iacp_gh_org = IF orgIn # "" THEN orgIn ELSE @]
  /\ tokenCheck' = [tokenCheck EXCEPT !.pc = "validating",
                                      !.controlled = (swState = "activated"),
                                      !.net = Null, !.resp = Null]
  /\ UNCHANGED << cfEl, aiEl, vaultGrid, navDot, toast, batches, reachable,
                  netChanges, uncaught, loads >>
  /\ UNCHANGED << nav, editor >>
  /\ UNCHANGED swVars

\* validateToken() settles: State.tokenValid = result.valid, and the toast
ValidateTokenSettle(r) ==
  /\ tokenCheck.pc = "validating"
  /\ r \in FetchResults(ApiUserUrl, serverVer)
  /\ LET resp == PageFetch(tokenCheck.controlled, Req("GET", ApiUserUrl), r)
     IN  /\ tokenCheck' = [tokenCheck EXCEPT
                             !.pc = "done",
                             !.tokenValid = IF ValidateToken(resp) THEN "true" ELSE "false",
                             !.net = r, !.resp = resp]
         /\ toast' = IF ValidateToken(resp) THEN "Token validated successfully"
                     ELSE "Token invalid - check permissions"
  /\ UNCHANGED << localStorage, cfEl, aiEl, vaultGrid, navDot, batches, reachable,
                  netChanges, uncaught, loads >>
  /\ UNCHANGED << nav, editor >>
  /\ UNCHANGED swVars

\* the page as it is loaded on its default fragment
InitUi ==
  /\ nav = LoadedNav("")
  /\ editor = IdleEditor
  /\ tokenCheck = IdleTokenCheck

\* the tunnel overrides an earlier session saved
SavedOverrides ==
  { <<NoUrl, NoUrl>>, <<PUrl("https", "custom.example"), PUrl("http", "")>> }

InitPage ==
  /\ \E o \in SavedOverrides :
       localStorage = [iacp_gw_custom |-> AbsentItem,
                       iacp_gw_cf_tunnel_url |-> o[1],
                       iacp_gw_cf_gateway_url |-> o[2],
                       iacp_gh_token |-> "ghp_token",
                       iacp_gh_org |-> "Infinity-X-One-Systems",
                       iacp_theme |-> "light"]
  /\ cfEl = << >>
  /\ aiEl = << >>
  /\ vaultGrid = << >>
  /\ navDot = "unset"
  /\ toast = ""
  /\ batches = [b \in 1..MaxBatches |-> IdleBatch]
  /\ reachable = ProbedHosts
  /\ netChanges = 0
  /\ uncaught = ""
  /\ loads = [f \in STATE_FILES |-> IdleLoad]

NextPage ==
  \/ \E b \in DOMAIN batches : LoadGateway(b)
  \/ \E b \in DOMAIN batches : LoadVault(b)
  \/ \E b \in DOMAIN batches : \E i \in DOMAIN batches[b].res : ProbeRespond(b, i)
  \/ \E b \in DOMAIN batches : \E i \in DOMAIN batches[b].res : ProbeFail(b, i)
  \/ \E b \in DOMAIN batches : \E i \in DOMAIN batches[b].res : ProbeTimeout(b, i)
  \/ Tick
  \/ \E h \in ProbedHosts : NetChange(h)
  \/ \E l \in LabelInputs, u \in UrlInputs : AddGatewayEndpoint(l, u)
  \/ \E b \in DOMAIN batches : ClearCustomEndpoints(b)

(***************************************************************************)
(* The worker's specification.                                             *)
(***************************************************************************)
InitWorker ==
  /\ swState = "parsed"
  /\ skipWaiting = FALSE
  /\ claimed = FALSE
  /\ caches \in {[n \in S |-> InitialEntries(n)] : S \in InitialCacheNames}
  /\ precache = [i \in DOMAIN PRECACHE_URLS |-> Null]
  /\ toDelete = {}
  /\ atActivate = [n \in {} |-> EmptyCache]
  /\ ev = [s \in Slots |-> FreeSlot]
  /\ last = NoLast
  /\ serverVer = 1

NextWorker ==
  \/ InstallStart
  \/ InstallAddAll
  \/ ActivateStart
  \/ \E k \in OLD_CACHE_NAMES \cup {CACHE_NAME, API_CACHE} : ActivateDelete(k)
  \/ ActivateClaim
  \/ ActivateDone
  \/ \E s \in Slots, r \in Requests : Dispatch(s, r)
  \/ \E s \in Slots : SwrLookup(s)
  \/ \E s \in Slots : CacheFirstLookup(s)
  \/ \E s \in Slots : \E r \in FetchResults(ev[s].req.url, serverVer) : NetworkFirstReply(s, r)
  \/ \E s \in Slots : \E r \in FetchResults(ev[s].req.url, serverVer) : SwrReply(s, r)
  \/ \E s \in Slots : \E r \in FetchResults(ev[s].req.url, serverVer) : CacheFirstReply(s, r)
  \/ ServerUpdate

vars == << swVars, pageVars, uiVars >>

\* the worker's specification: the page stays as it was loaded
InitWorkerSpec ==
  /\ InitUi
  /\ InitWorker
  /\ InitPage
  /\ localStorage.iacp_gw_cf_tunnel_url = NoUrl
  /\ localStorage.iacp_gw_cf_gateway_url = NoUrl

SpecWorker == InitWorkerSpec /\ [][NextWorker]_vars

\* the dashboard's specification: no worker is installed
InitGateway ==
  /\ InitUi
  /\ InitPage
  /\ InitWorker
  /\ caches = [n \in {} |-> EmptyCache]

SpecGateway == InitGateway /\ [][NextPage]_vars

\* the most probes a batch issues
MaxProbes == Len(CF_ENDPOINTS) + Len(AI_ENDPOINTS) + MaxCustom

\* the fetch of probe i of batch b settles: with a response, with a
\* rejection, or aborted by its own timer
ProbeSettles(b, i) == ProbeRespond(b, i) \/ ProbeFail(b, i) \/ ProbeTimeout(b, i)

\* the dashboard when no fetch stays pending for ever: the abort timer of
\* probeEndpoint bounds every probe by PROBE_TIMEOUT_MS
SpecGatewayFair ==
  /\ InitGateway
  /\ [][NextPage]_vars
  /\ \A b \in 1..MaxBatches : \A i \in 1..MaxProbes : WF_vars(ProbeSettles(b, i))

\* the dashboard on storage another writer left under the custom key
InitStorage ==
  /\ InitUi
  /\ InitWorker
  /\ caches = [n \in {} |-> EmptyCache]
  /\ \E item \in ForeignItems \cup OtherGroupItems \cup {AbsentItem} :
       localStorage = [iacp_gw_custom |-> item,
                       iacp_gw_cf_tunnel_url |-> NoUrl,
                       iacp_gw_cf_gateway_url |-> NoUrl,
                       iacp_gh_token |-> "ghp_token",
                       iacp_gh_org |-> "Infinity-X-One-Systems",
                       iacp_theme |-> "light"]
  /\ cfEl = << >>
  /\ aiEl = << >>
  /\ vaultGrid = << >>
  /\ navDot = "unset"
  /\ toast = ""
  /\ batches = [b \in 1..MaxBatches |-> IdleBatch]
  /\ reachable = ProbedHosts
  /\ netChanges = 0
  /\ uncaught = ""
  /\ loads = [f \in STATE_FILES |-> IdleLoad]

SpecStorage == InitStorage /\ [][NextPage]_vars

\* the loaders of the state files, with no worker installed
InitStateFile ==
  /\ InitGateway
  /\ localStorage.iacp_gw_cf_tunnel_url = NoUrl
  /\ localStorage.iacp_gw_cf_gateway_url = NoUrl

SpecStateFile == InitStateFile /\ [][NextStateFile]_vars

\* overlapping loadGateway batches: the Gateway section with the local
\* Ollama server not running, and room for two batches in flight
InitOverlap ==
  /\ InitUi
  /\ InitWorker
  /\ caches = [n \in {} |-> EmptyCache]
  /\ localStorage = [iacp_gw_custom |-> AbsentItem,
                     iacp_gw_cf_tunnel_url |-> NoUrl,
                     iacp_gw_cf_gateway_url |-> NoUrl,
                     iacp_gh_token |-> "ghp_token",
                     iacp_gh_org |-> "Infinity-X-One-Systems",
                     iacp_theme |-> "light"]
  /\ cfEl = << >>
  /\ aiEl = << >>
  /\ vaultGrid = << >>
  /\ navDot = "unset"
  /\ toast = ""
  /\ batches = [b \in 1..MaxOverlap |-> IdleBatch]
  /\ reachable = ProbedHosts \ {AI_ENDPOINTS[1].url.host}
  /\ netChanges = 0
  /\ uncaught = ""
  /\ loads = [f \in STATE_FILES |-> IdleLoad]

\* the form filled with a label and a URL that addGatewayEndpoint accepts
AcceptedLabels == {l \in LabelInputs : Trim(l) # ""}
AcceptedUrls == {u \in UrlInputs : u # NoUrl /\ UrlParses(u)}

NextOverlap ==
  \/ \E b \in DOMAIN batches : LoadGateway(b)
  \/ \E b \in DOMAIN batches : \E i \in DOMAIN batches[b].res : ProbeRespond(b, i)
  \/ \E b \in DOMAIN batches : \E i \in DOMAIN batches[b].res : ProbeFail(b, i)
  \/ \E l \in AcceptedLabels, u \in AcceptedUrls :
       /\ Len(ParseCustom(localStorage)) < MaxOverlapCustom
       /\ AddGatewayEndpoint(l, u)
  \/ \E b \in DOMAIN batches : ClearCustomEndpoints(b)

SpecOverlap == InitOverlap /\ [][NextOverlap]_vars

\* the router and the editor: the page opened on any fragment, no worker
InitRouting ==
  /\ InitWorker
  /\ caches = [n \in {} |-> EmptyCache]
  /\ InitPage
  /\ localStorage.iacp_gw_cf_tunnel_url = NoUrl
  /\ localStorage.iacp_gw_cf_gateway_url = NoUrl
  /\ \E hash \in HashInputs : nav = LoadedNav(hash)
  /\ editor = IdleEditor
  /\ tokenCheck = IdleTokenCheck

\* init() runs when the document is parsed, and a queued hashchange event is
\* dispatched by the event loop
SpecRouting ==
  InitRouting /\ [][NextRouting]_vars /\ WF_vars(InitNavigate) /\ WF_vars(HashChange)

\* the lifecycle of the worker
NextLifecycle ==
  \/ InstallStart
  \/ InstallAddAll
  \/ ActivateStart
  \/ \E k \in OLD_CACHE_NAMES \cup {CACHE_NAME, API_CACHE} : ActivateDelete(k)
  \/ ActivateClaim
  \/ ActivateDone

\* the Settings form while the worker installs and takes control
NextSettings ==
  \/ NextLifecycle
  \/ \E tokenIn \in TokenInputs, orgIn \in OrgInputs : HandleSettingsSave(tokenIn, orgIn)
  \/ \E r \in FetchResults(ApiUserUrl, serverVer) : ValidateTokenSettle(r)

SpecSettings == InitWorkerSpec /\ [][NextSettings]_vars

\* the state snapshot as loadStateFile asks for it at time t:
\* `${STATE_BASE}_STATE/${filename}?t=${Date.now()}`
StampedStateUrl(t) ==
  Url(ORIGIN_HOST, <<STATE_MARKER, "org-index.json">>, "t=" \o ToString(t))

\* the worker answering the requests of loadStateFile
NextSnapshot ==
  \/ NextLifecycle
  \/ \E s \in Slots, t \in 1..MaxStamp : Dispatch(s, Req("GET", StampedStateUrl(t)))
  \/ \E s \in Slots : SwrLookup(s)
  \/ \E s \in Slots : \E r \in FetchResults(ev[s].req.url, serverVer) : SwrReply(s, r)
  \/ ServerUpdate

SpecSnapshot == InitWorkerSpec /\ [][NextSnapshot]_vars

(***************************************************************************)
(* Properties of the endpoint health monitor.                              *)
(***************************************************************************)
\* a panel that shows statuses, none of them "checking"
Settled(panel) == panel # << >> /\ \A i \in DOMAIN panel : panel[i].status # "checking"

\* C1: the Vault endpoint panel shows what the tunnel panel of the Gateway
\* section shows, the same endpoints with the same statuses, taken from one
\* status map, whenever both panels show settled statuses, whichever of
\* loadGateway and loadVault wrote the Vault grid last.
C1_PanelsShareStatusMap ==
  (Settled(cfEl) /\ Settled(vaultGrid)) => vaultGrid = cfEl

\* the fetch of probe i of batch b gets a response before its timer fires
RespondsInTime(b, i) ==
  /\ UrlParses(AllEndpoints(batches[b])[i].url)
  /\ AllEndpoints(batches[b])[i].url.host \in reachable
  /\ ~TimerDue(batches[b])

NoGatewayBatchInFlight ==
  \A b \in DOMAIN batches : ~(batches[b].pc = "probing" /\ batches[b].kind = "gateway")

\* C3: when a batch of loadGateway has settled, the two panels together hold
\* as many cards as the batch probed endpoints, and every card is 'online'
\* or 'offline'; with no batch of loadGateway in flight no card is 'checking'.
C3_SettledBatchRendersAll ==
  /\ [](NoGatewayBatchInFlight /\ cfEl # << >> => Settled(cfEl) /\ Settled(aiEl))
  /\ [][\A b \in DOMAIN batches :
          (batches[b].pc = "probing" /\ batches[b].kind = "gateway"
             /\ batches'[b].pc = "done")
          => /\ Len(cfEl') + Len(aiEl') = Len(AllEndpoints(batches[b]))
             /\ \A i \in DOMAIN cfEl' : cfEl'[i].status \in {"online", "offline"}
             /\ \A i \in DOMAIN aiEl' : aiEl'[i].status \in {"online", "offline"}]_vars

\* a settled batch of six endpoints, a custom one among them, some online
\* and some offline
C3_Witness ==
  /\ NoGatewayBatchInFlight
  /\ Len(cfEl) = 3 /\ Len(aiEl) = 3
  /\ \E i \in DOMAIN cfEl : cfEl[i].status = "offline"
  /\ \E i \in DOMAIN aiEl : aiEl[i].status = "online"

(***************************************************************************)
(* Properties of the offline cache manager.                                *)
(***************************************************************************)
\* C4: stale-while-revalidate with no cached copy and a failed fetch answers
\* with the empty JSON object '{}'.
C4_EmptyJsonFallback ==
  (last.branch = "swr" /\ ~last.hit /\ last.net = NetError) => last.resp = EmptyJson

\* C5: stale-while-revalidate with a cached copy answers with that copy while
\* its fetch is still in flight, and an ok response of that fetch replaces
\* the entry of the API cache, which is what the next request is served.
C5_StaleWhileRevalidate ==
  /\ \A s \in Slots : ev[s].pc = "revalidate" => Truthy(ev[s].cached)
  /\ (last.branch = "swr" /\ last.hit /\ last.net = Null)
       => /\ last.resp = CacheMatch(caches[API_CACHE], last.req.url)
          /\ \E s \in Slots : ev[s].pc = "revalidate" /\ ev[s].req = last.req
  /\ (last.branch = "swr" /\ Ok(last.net))
       => CacheMatch(caches[API_CACHE], last.req.url) = last.net

\* the cached copy answered, and the revalidation stored a newer one
C5_Witness ==
  /\ last.branch = "swr" /\ last.hit /\ Ok(last.net)
  /\ last.resp # last.net
  /\ CacheMatch(caches[API_CACHE], last.req.url) = last.net

\* C6 as claimed: a GET whose path contains '/_STATE/' is served by
\* stale-while-revalidate, whatever its host.
C6_MarkerAlwaysSwr ==
  (last.req.method = "GET" /\ PathIncludesMarker(last.req.url.path))
    => last.branch = "swr"

\* C6: a GET whose path contains '/_STATE/' and whose host is not
\* api.github.com is served by stale-while-revalidate, never network-first,
\* also when its host is the CDN host; on api.github.com the request is
\* served network-first.
C6_MarkerSwrUnlessApiHost ==
  (last.req.method = "GET" /\ PathIncludesMarker(last.req.url.path))
    => IF last.req.url.host = API_HOST
       THEN last.branch = "networkFirst"
       ELSE last.branch = "swr"

\* the marker on the CDN host was served by stale-while-revalidate
C6_Witness == last.req.url = CdnStateUrl /\ last.branch = "swr" /\ last.net # Null

\* C7: a GET to api.github.com goes to the network, reads no cache and
\* writes none (no cache of the active worker holds an entry of that host),
\* and a failed fetch is answered with the synthesized JSON error body.
C7_ApiNetworkFirst ==
  /\ \A s \in Slots :
       (ev[s].pc # "free" /\ ev[s].req.url.host = API_HOST) => ev[s].pc = "net"
  /\ swState = "activated" =>
       \A n \in DOMAIN caches : \A k \in DOMAIN caches[n] : k.host # API_HOST
  /\ (last.req.method = "GET" /\ last.req.url.host = API_HOST)
       => /\ last.branch = "networkFirst"
          /\ ~last.hit
          /\ last.net # Null
          /\ last.resp = IF last.net = NetError THEN OfflineJson ELSE last.net

\* the network failed and the synthesized body answered
C7_Witness ==
  /\ last.req.url.host = API_HOST
  /\ last.net = NetError
  /\ last.resp = OfflineJson

\* C8: cache-first. The CDN host is matched by its exact name; a cached copy
\* answers with no fetch; after a miss the fetched response answers and is
\* stored in the shell cache only when it is ok; a failed fetch is answered
\* with status 503.
C8_CacheFirst ==
  /\ (last.req.method = "GET" /\ ~PathIncludesMarker(last.req.url.path))
       => /\ last.req.url.host = CDN_HOST => last.branch = "cdn"
          /\ last.req.url.host \notin {CDN_HOST, API_HOST} => last.branch = "shell"
  /\ (last.branch \in CacheFirstBranches /\ last.hit)
       => /\ last.net = Null
          /\ last.resp = CachesMatch(caches, last.req.url)
  /\ (last.branch \in CacheFirstBranches /\ ~last.hit)
       => /\ last.net # Null
          /\ last.net = NetError => last.resp.status = 503
          /\ last.net # NetError => last.resp = last.net
          /\ Ok(last.net) => CacheMatch(caches[CACHE_NAME], last.req.url) = last.net
          /\ ~Ok(last.net) => CachesMatch(caches, last.req.url) # last.net

\* a miss whose fetched response was stored in the shell cache
C8_Witness ==
  /\ last.branch = "cdn" /\ ~last.hit /\ Ok(last.net)
  /\ last.resp = last.net
  /\ CacheMatch(caches[CACHE_NAME], last.req.url) = last.net

\* the entries of the current generations in a CacheStorage
CurrentOnly(cs) == [n \in DOMAIN cs \cap {CACHE_NAME, API_CACHE} |-> cs[n]]

\* C9: activation deletes every cache generation other than 'iacp-v1' and
\* 'iacp-api-v1', leaves the entries of these two as they were, and claims
\* the clients only when the deletions are done: what can be retrieved then
\* is what the two current generations held.
C9_ActivateEvictsStale ==
  /\ swState = "activating" =>
       /\ CurrentOnly(caches) = CurrentOnly(atActivate)
       /\ \A n \in DOMAIN atActivate \ {CACHE_NAME, API_CACHE} :
            n \in toDelete \/ n \notin DOMAIN caches
  /\ claimed =>
       /\ toDelete = {}
       /\ DOMAIN caches \subseteq {CACHE_NAME, API_CACHE}
  /\ (swState = "activating" /\ claimed) => caches = CurrentOnly(atActivate)

\* the clients are claimed, two stale generations are gone, the API
\* generation of before is kept
C9_Witness ==
  /\ swState = "activating" /\ claimed
  /\ OLD_CACHE_NAMES \subseteq DOMAIN atActivate
  /\ API_CACHE \in DOMAIN atActivate
  /\ StateUrl \in DOMAIN caches[API_CACHE]

\* C10: install is all-or-nothing. When a fetch of the manifest fails, the
\* worker becomes redundant without having called skipWaiting; a worker that
\* has left the installing state holds every manifest URL in the shell cache.
C10_InstallAllOrNothing ==
  /\ (\E i \in DOMAIN precache : precache[i] # Null /\ ~Ok(precache[i]))
       => swState = "redundant" /\ ~skipWaiting
  /\ swState \in {"installed", "activating", "activated"}
       => /\ skipWaiting
          /\ CACHE_NAME \in DOMAIN caches
          /\ \A i \in DOMAIN PRECACHE_URLS :
               /\ PRECACHE_URLS[i] \in DOMAIN caches[CACHE_NAME]
               /\ Ok(caches[CACHE_NAME][PRECACHE_URLS[i]])

\* one manifest URL answered 404 and the others were fine: the install failed
C10_Witness ==
  /\ swState = "redundant"
  /\ \E i \in DOMAIN precache : precache[i].status = 404
  /\ \E i \in DOMAIN precache : Ok(precache[i])

\* C11: a request that is not a GET is not intercepted: the worker takes no
\* fetch event for it, gives no response to it, reads no cache for it, and no
\* cache holds an entry for the URL the probes ask for with HEAD.
C11_NonGetPassthrough ==
  /\ \A s \in Slots : ev[s].pc # "free" => ev[s].req.method = "GET"
  /\ last.req.method \notin {"GET", ""}
       => /\ last.branch = "passthrough"
          /\ ~last.hit
          /\ last.net = Null
          /\ last.resp = Null
  /\ \A n \in DOMAIN caches : TunnelUrl \notin DOMAIN caches[n]

\* a HEAD request of a probe passed by a worker whose shell cache is filled
C11_Witness ==
  /\ last.req = Req("HEAD", TunnelUrl)
  /\ last.branch = "passthrough"
  /\ CACHE_NAME \in DOMAIN caches
  /\ DOMAIN caches[CACHE_NAME] # {}

(***************************************************************************)
(* Properties of the custom endpoints.                                     *)
(***************************************************************************)
\* the form fields addGatewayEndpoint rejects: a label that is empty once
\* trimmed, an empty URL, a URL with no scheme, an http(s) URL with no host
RejectedInput(l, u) ==
  \/ l \in {"", " "}
  \/ u.scheme = ""
  \/ u.scheme \in {"http", "https"} /\ u.host = ""

ErrorToasts == {"Enter both a label and a URL", "Invalid URL"}

\* C12: addGatewayEndpoint with an empty or blank label, an empty URL or a
\* URL that is no absolute URL shows an error toast and changes nothing
\* else: the stored list, the batches (no probe is issued) and the panels
\* are as before.
C12_InvalidAddChangesNothing ==
  [][\A l \in LabelInputs : \A u \in UrlInputs :
       (RejectedInput(l, u) /\ AddGatewayEndpoint(l, u))
       => /\ toast' \in ErrorToasts
          /\ UNCHANGED << localStorage, batches, cfEl, aiEl, vaultGrid, navDot >>]_vars

\* the URL was refused while the stored list held an entry, which it keeps
C12_Witness ==
  /\ toast = "Invalid URL"
  /\ Len(ParseCustom(localStorage)) = 1
  /\ \A b \in DOMAIN batches : batches[b].pc # "probing"

\* C13: addGatewayEndpoint with a label and an absolute URL appends one
\* entry with that label and URL at the end of the stored list, keeps the
\* entries stored before in their order, and starts a batch of loadGateway
\* that probes the new endpoint.
C13_ValidAddAppendsOne ==
  [][\A l \in LabelInputs : \A u \in UrlInputs :
       (~RejectedInput(l, u) /\ AddGatewayEndpoint(l, u))
       => LET old == ParseCustom(localStorage)
              new == ParseCustom(localStorage')
          IN  /\ localStorage'.iacp_gw_custom.kind = "array"
              /\ Len(new) = Len(old) + 1
              /\ SubSeq(new, 1, Len(old)) = old
              /\ new[Len(new)].label = l /\ new[Len(new)].url = u
              /\ new[Len(new)].id # ""
              /\ \E b \in DOMAIN batches :
                   /\ batches[b].pc # "probing"
                   /\ batches'[b].pc = "probing" /\ batches'[b].kind = "gateway"
                   /\ \E i \in DOMAIN batches'[b].res :
                        /\ AllEndpoints(batches'[b])[i] = new[Len(new)]
                        /\ batches'[b].res[i] = "pending"]_vars

\* a second entry was appended and its batch is in flight
C13_Witness ==
  /\ toast = "Added"
  /\ Len(ParseCustom(localStorage)) = 2
  /\ \E b \in DOMAIN batches : batches[b].pc = "probing" /\ Len(batches[b].cf) = 4

\* C14: the ids of the endpoints a batch of loadGateway probes and renders
\* are pairwise distinct.
C14_IdsPairwiseDistinct ==
  \A b \in DOMAIN batches :
    (batches[b].pc # "idle" /\ batches[b].kind = "gateway")
    => \A i, j \in DOMAIN AllEndpoints(batches[b]) :
         i # j => AllEndpoints(batches[b])[i].id # AllEndpoints(batches[b])[j].id

\* the URL in force for the built-in tunnel endpoint i: the one saved for
\* its id when one is saved, its default otherwise
EffectiveUrl(store, i) ==
  LET saved == IF CF_ENDPOINTS[i].id = "vizual-x" THEN store.iacp_gw_cf_tunnel_url
               ELSE store.iacp_gw_cf_gateway_url
  IN  IF saved # NoUrl THEN saved ELSE CF_ENDPOINTS[i].url

\* C15: when loadGateway or loadVault starts a batch, each built-in tunnel
\* endpoint is probed at, and shown with, the URL saved for its id, or its
\* default URL when none is saved; the cards of the settled batch show the
\* URL that was probed.
C15_OverrideMerge ==
  [][\A b \in DOMAIN batches : \A i \in DOMAIN CF_ENDPOINTS :
       /\ (batches[b].pc # "probing" /\ batches'[b].pc = "probing")
            => /\ batches'[b].cf[i].id = CF_ENDPOINTS[i].id
               /\ batches'[b].cf[i].url = EffectiveUrl(localStorage', i)
               /\ IF batches'[b].kind = "gateway"
                  THEN cfEl'[i].url = EffectiveUrl(localStorage', i)
                  ELSE vaultGrid'[i].url = EffectiveUrl(localStorage', i)
       /\ (batches[b].pc = "probing" /\ batches'[b].pc = "done")
            => /\ vaultGrid'[i].url = batches[b].cf[i].url
               /\ batches[b].kind = "gateway" => cfEl'[i].url = batches[b].cf[i].url]_vars

\* loadGateway and then loadVault showed the tunnel at the saved URL
C15_Witness ==
  \E b \in DOMAIN batches :
    /\ batches[b].pc = "done" /\ batches[b].kind = "vault"
    /\ localStorage.iacp_gw_cf_tunnel_url = PUrl("https", "custom.example")
    /\ batches[b].cf[1].url = PUrl("https", "custom.example")
    /\ vaultGrid[1].url = PUrl("https", "custom.example")
    /\ Settled(cfEl) /\ cfEl[1].url = PUrl("https", "custom.example")

\* C16: after a batch of loadGateway has settled the sidebar indicator is
\* 'online' exactly when an endpoint of group 'cf' of the batch is online.
C16_NavDotOnlineIffCfGroupOnline ==
  \A b \in DOMAIN batches :
    (batches[b].pc = "done" /\ batches[b].kind = "gateway")
    => (navDot = "online"
          <=> \E i \in DOMAIN AllEndpoints(batches[b]) :
                /\ AllEndpoints(batches[b])[i].group = "cf"
                /\ batches[b].res[i] = "online")

\* C17: whatever is stored under the custom-endpoint key, no call of
\* loadGateway or addGatewayEndpoint ends with an exception.
C17_ForeignStorageTolerated == uncaught # "TypeError"

Ids(eps) == [i \in DOMAIN eps |-> eps[i].id]

\* C18: clearCustomEndpoints removes the custom list from storage, leaves
\* the two tunnel URLs, the token, the org and the theme as they were, and
\* starts a batch of loadGateway over the built-in endpoints only.
C18_ClearKeepsOtherKeys ==
  [][\A b \in DOMAIN batches :
       ClearCustomEndpoints(b)
       => /\ localStorage'.iacp_gw_custom.kind = "absent"
          /\ \A k \in DOMAIN localStorage \ {"iacp_gw_custom"} :
               localStorage'[k] = localStorage[k]
          /\ batches'[b].pc = "probing" /\ batches'[b].kind = "gateway"
          /\ Ids(batches'[b].cf) = << "vizual-x", "infinityxai" >>
          /\ Ids(batches'[b].ai) = << "ollama-local", "groq-api", "gemini-api" >>
          /\ \A i \in DOMAIN batches'[b].res : batches'[b].res[i] = "pending"]_vars

\* the list was cleared while overrides, token, org and theme were stored,
\* and the refresh is under way; the Vault grid still shows the custom
\* endpoint of the batch before
C18_Witness ==
  /\ toast = "Custom endpoints cleared"
  /\ Len(vaultGrid) = 3
  /\ localStorage.iacp_gw_custom = AbsentItem
  /\ localStorage.iacp_gw_cf_tunnel_url = PUrl("https", "custom.example")
  /\ localStorage.iacp_gh_token # "" /\ localStorage.iacp_gh_org # ""
  /\ localStorage.iacp_theme # ""
  /\ \E b \in DOMAIN batches : batches[b].pc = "probing" /\ Len(batches[b].cf) = 2

AllChecking(panel) == \A i \in DOMAIN panel : panel[i].status = "checking"
NoneChecking(panel) == \A i \in DOMAIN panel : panel[i].status \in {"online", "offline"}

\* C20: a batch of loadGateway shows every endpoint as 'checking' and issues
\* every probe in the step that starts it; the panels change again only in
\* the step in which the last probe of a batch settles, to cards that are
\* all 'online' or 'offline'; no panel ever mixes 'checking' and settled
\* cards.
C20_BatchOrdering ==
  /\ [](/\ AllChecking(cfEl) \/ NoneChecking(cfEl)
        /\ AllChecking(aiEl) \/ NoneChecking(aiEl))
  /\ [][(cfEl' # cfEl \/ aiEl' # aiEl)
         => \E b \in DOMAIN batches :
              /\ batches'[b].kind = "gateway"
              /\ \/ /\ batches[b].pc # "probing" /\ batches'[b].pc = "probing"
                    /\ \A i \in DOMAIN batches'[b].res : batches'[b].res[i] = "pending"
                    /\ cfEl' = CheckingCards(batches'[b].cf)
                    /\ aiEl' = CheckingCards(batches'[b].ai)
                 \/ /\ batches[b].pc = "probing" /\ batches'[b].pc = "done"
                    /\ \A i \in DOMAIN batches'[b].res : batches'[b].res[i] # "pending"
                    /\ Len(cfEl') = Len(batches[b].cf) /\ NoneChecking(cfEl')
                    /\ Len(aiEl') = Len(batches[b].ai) /\ NoneChecking(aiEl')]_vars

\* a batch in flight with some probes settled and the panels still all
\* 'checking'
C20_Witness ==
  \E b \in DOMAIN batches :
    /\ batches[b].pc = "probing" /\ batches[b].kind = "gateway"
    /\ \E i \in DOMAIN batches[b].res : batches[b].res[i] = "online"
    /\ \E i \in DOMAIN batches[b].res : batches[b].res[i] = "pending"
    /\ cfEl = CheckingCards(batches[b].cf)
    /\ aiEl = CheckingCards(batches[b].ai)

(***************************************************************************)
(* Properties of the router, the editor and the Settings form.             *)
(***************************************************************************)
\* the router is at rest: init() ran and no hashchange event is queued
AtRest == nav.booted /\ nav.events = 0

\* C27: one click on a nav item runs the loader of its section exactly once:
\* when the events the click caused are handled, loadSection was called one
\* time since the click (for 'gateway': one probe batch was started).
C27_OneLoadPerClick == (AtRest /\ nav.origin = "click") => nav.calls = 1

\* C28: navigate terminates for every section string: the chain of
\* hashchange events it starts is finite, and when it has ended
\* State.section is one of SECTIONS (an unknown name was replaced by
\* 'overview') and location.hash equals State.section.
C28_NavigateSettles ==
  /\ [](AtRest => (nav.hash = nav.section
                    /\ \E i \in DOMAIN SECTIONS : SECTIONS[i] = nav.section))
  /\ <>[]AtRest

\* an unknown fragment was typed, and the chain of events it started ended
C28_Witness ==
  /\ AtRest
  /\ nav.origin = "hash"
  /\ nav.calls = 2
  /\ nav.section = "overview"

\* C29: the Monaco editor is created at most once per page: at most one
\* loader script is appended and monaco.editor.create is called at most once,
\* also when loadEditor is called again before the first script has loaded.
C29_MonacoCreatedOnce == editor.scripts <= 1 /\ editor.created <= 1

\* C25: State.tokenValid is true only when api.github.com/user answered
\* with success; with the worker active and the network unreachable
\* handleSettingsSave ends with tokenValid false.
C25_TokenValidOnlyOnAnswer ==
  (tokenCheck.pc = "done" /\ tokenCheck.tokenValid = "true") => Ok(tokenCheck.net)

(***************************************************************************)
(* Properties of the snapshot cache.                                       *)
(***************************************************************************)
\* what loadStateFile returns for the response its fetch settled to
LoadStateFileResult(resp) ==
  IF resp = NetError \/ ~Ok(resp) THEN "null"
  ELSE IF IsJsonText(resp.body) THEN resp.body ELSE "SyntaxError"

\* an earlier loadStateFile of the same file put its snapshot in the cache
SnapshotCachedBefore(u) ==
  /\ API_CACHE \in DOMAIN caches
  /\ \E k \in DOMAIN caches[API_CACHE] :
       k.host = u.host /\ k.path = u.path /\ k.query # ""

\* C26: with the worker active, after loadStateFile(f) succeeded once, a
\* later loadStateFile(f) returns the cached snapshot and not null when the
\* network is down: the key of its request matches the cached key, so the
\* worker's lookup finds the snapshot and answers with it.
C26_OfflineServesSnapshot ==
  [][\A s \in Slots :
       (SwrLookup(s) /\ SnapshotCachedBefore(ev[s].req.url))
         => (ev'[s].pc = "revalidate"
             /\ LoadStateFileResult(ev'[s].cached) # "null")]_vars

\* the cache the fetch handler keeps the entries of a request in
HomeCache(u) == IF PathIncludesMarker(u.path) THEN API_CACHE ELSE CACHE_NAME

\* the entry of request u in cache n was written or replaced in this step
Written(n, u) ==
  /\ n \in DOMAIN caches' /\ u \in DOMAIN caches'[n]
  /\ ~(n \in DOMAIN caches /\ u \in DOMAIN caches[n] /\ caches[n][u] = caches'[n][u])

\* C30: every entry the fetch handler writes holds an ok response; a
\* revalidation that failed or was not ok neither overwrites nor removes a
\* cached copy; shell and CDN entries are written to the shell cache only
\* and state snapshots to the API cache only.
C30_CacheWritesOkAndHomed ==
  [][swState = "activated" =>
       /\ \A n \in DOMAIN caches' : \A u \in DOMAIN caches'[n] :
            Written(n, u) => (Ok(caches'[n][u]) /\ n = HomeCache(u))
       /\ \A n \in DOMAIN caches : \A u \in DOMAIN caches[n] :
            n \in DOMAIN caches' /\ u \in DOMAIN caches'[n]
       /\ \A s \in Slots : \A r \in FetchResults(ev[s].req.url, serverVer) :
            ((SwrReply(s, r) \/ CacheFirstReply(s, r)) /\ ~Ok(r))
              => caches' = caches]_vars

\* a snapshot the handler cached is kept by a revalidation that failed
C30_Witness ==
  /\ swState = "activated"
  /\ last.branch = "swr" /\ last.hit
  /\ last.net.js # "null" /\ ~Ok(last.net)
  /\ API_CACHE \in DOMAIN caches
  /\ last.req.url \in DOMAIN caches[API_CACHE]
  /\ caches[API_CACHE][last.req.url].body = Body(2)

(***************************************************************************)
(* Properties of the probe batches.                                        *)
(***************************************************************************)
\* the probes of batch b whose result differs between the two states
ChangedResults(b) ==
  {j \in DOMAIN batches[b].res :
     j \notin DOMAIN batches'[b].res \/ batches'[b].res[j] # batches[b].res[j]}

\* C21: every probe batch that was started reaches its final re-render,
\* whatever probes fail or time out: a batch in flight always has a pending
\* probe (when the last one settles the batch renders, it never rejects), a
\* settling probe changes the result of its own endpoint only, and the batch
\* is done in the end.
C21_BatchCompletes ==
  /\ \A b \in 1..MaxBatches : (batches[b].pc = "probing") ~> (batches[b].pc = "done")
  /\ [](\A b \in 1..MaxBatches :
          batches[b].pc = "probing" => Pending(batches[b]) # {})
  /\ [][\A b \in 1..MaxBatches :
          batches[b].pc = "probing" =>
            /\ batches'[b].pc \in {"probing", "done"}
            /\ Cardinality(ChangedResults(b)) <= 1
            /\ \A j \in ChangedResults(b) : batches[b].res[j] = "pending"]_vars

\* a batch rendered its results after a probe hung until its timer was due,
\* with another endpoint of the batch online
C21_Witness ==
  \E b \in DOMAIN batches :
    /\ batches[b].pc = "done"
    /\ TimerDue(batches[b])
    /\ \E i, j \in DOMAIN batches[b].res :
         batches[b].res[i] = "online" /\ batches[b].res[j] = "offline"

(***************************************************************************)
(* Properties of the merged endpoint list.                                 *)
(***************************************************************************)
InTunnelGroup(c) == c.group = "cf"
NotInTunnelGroup(c) == c.group # "cf"

\* the custom list as the storage holds it: the items of the stored array
StoredCustom(store) ==
  IF store.iacp_gw_custom.kind = "array" THEN store.iacp_gw_custom.items ELSE << >>

\* this step starts a loadGateway batch in slot b
StartsGatewayBatch(b) ==
  /\ batches[b].pc # "probing"
  /\ batches'[b].pc = "probing"
  /\ batches'[b].kind = "gateway"

\* C22 as stated: the sequence loadGateway probes is the built-in tunnel
\* endpoints, then the built-in AI endpoints, then the custom endpoints.
C22_TunnelThenAiThenCustom ==
  \A b \in DOMAIN batches :
    batches[b].kind = "gateway" =>
      LET all == Ids(AllEndpoints(batches[b]))
      IN  /\ Len(all) >= Len(CF_ENDPOINTS) + Len(AI_ENDPOINTS)
          /\ SubSeq(all, 1, Len(CF_ENDPOINTS)) = Ids(CF_ENDPOINTS)
          /\ SubSeq(all, Len(CF_ENDPOINTS) + 1, Len(CF_ENDPOINTS) + Len(AI_ENDPOINTS))
               = Ids(AI_ENDPOINTS)

\* C22, amended: the sequence loadGateway probes is the built-in tunnel
\* endpoints, then the custom endpoints of group 'cf', then the built-in AI
\* endpoints, then the other custom endpoints; the tunnel panel shows the
\* first two parts and the AI panel the last two, so every endpoint is
\* rendered in exactly one panel, and it is probed exactly once per batch.
C22_TunnelCustomThenAiOther ==
  [][\A b \in DOMAIN batches :
       StartsGatewayBatch(b) =>
         LET custom == StoredCustom(localStorage')
             tunnel == Ids(CF_ENDPOINTS) \o Ids(SelectSeq(custom, InTunnelGroup))
             ai == Ids(AI_ENDPOINTS) \o Ids(SelectSeq(custom, NotInTunnelGroup))
         IN  /\ Ids(AllEndpoints(batches'[b])) = tunnel \o ai
             /\ Ids(cfEl') = tunnel
             /\ Ids(aiEl') = ai
             /\ DOMAIN batches'[b].res = 1..(Len(tunnel) + Len(ai))
             /\ Len(cfEl') + Len(aiEl') = Len(CF_ENDPOINTS) + Len(AI_ENDPOINTS) + Len(custom)]_vars

\* a batch over a custom endpoint of either group has rendered its results
C22_Witness ==
  \E b \in DOMAIN batches :
    /\ batches[b].kind = "gateway" /\ batches[b].pc = "done"
    /\ Len(batches[b].cf) > Len(CF_ENDPOINTS)
    /\ Len(batches[b].ai) > Len(AI_ENDPOINTS)
    /\ Len(cfEl) = Len(batches[b].cf) /\ Len(aiEl) = Len(batches[b].ai)

(***************************************************************************)
(* Properties of overlapping batches.                                      *)
(***************************************************************************)
\* the ids the panels show for the configuration in the storage
MergedTunnelIds(store) ==
  Ids(CF_ENDPOINTS) \o Ids(SelectSeq(StoredCustom(store), InTunnelGroup))

MergedAiIds(store) ==
  Ids(AI_ENDPOINTS) \o Ids(SelectSeq(StoredCustom(store), NotInTunnelGroup))

\* this step is the final re-render of the loadGateway batch in slot b
RendersGatewayBatch(b) ==
  /\ batches[b].pc = "probing"
  /\ batches'[b].pc = "done"
  /\ batches[b].kind = "gateway"

\* the results batch b holds for the endpoints of this id
ResultsOf(b, id) ==
  {b.res[j] : j \in {i \in DOMAIN b.cf : b.cf[i].id = id}}
    \cup {b.res[Len(b.cf) + j] : j \in {i \in DOMAIN b.ai : b.ai[i].id = id}}

\* the panels show the list of batch b
ShowsListOf(b) == Ids(cfEl) = Ids(b.cf) /\ Ids(aiEl) = Ids(b.ai)

NoBatchInFlight == \A b \in DOMAIN batches : batches[b].pc # "probing"

\* C23: a loadGateway batch may start while an earlier one is in flight:
\* the start leaves the earlier batch as it is (nothing cancels it), and the
\* final re-render of a batch puts that batch's list and statuses in the
\* panels whatever the other batch did, so the panels show the batch that
\* re-rendered last, which can be the one started first.
C23_LastRenderWins ==
  [][\A b \in DOMAIN batches :
       /\ StartsGatewayBatch(b) =>
            \A c \in DOMAIN batches \ {b} : batches'[c] = batches[c]
       /\ RendersGatewayBatch(b) =>
            /\ Ids(cfEl') = Ids(batches[b].cf)
            /\ Ids(aiEl') = Ids(batches[b].ai)
            /\ \A i \in DOMAIN cfEl' :
                 cfEl'[i].status \in ResultsOf(batches'[b], cfEl'[i].id)
            /\ \A i \in DOMAIN aiEl' :
                 aiEl'[i].status \in ResultsOf(batches'[b], aiEl'[i].id)]_vars

\* two batches overlapped and the one started first, before the endpoint
\* was added, re-rendered last: the panels show its list
C23_Witness ==
  /\ MaxOverlap >= 2
  /\ batches[1].pc = "done" /\ batches[2].pc = "done"
  /\ batches[1].kind = "gateway" /\ batches[2].kind = "gateway"
  /\ Len(StoredCustom(localStorage)) = 1
  /\ Len(batches[1].cf) = Len(CF_ENDPOINTS)
  /\ Len(batches[2].cf) = Len(CF_ENDPOINTS) + 1
  /\ ShowsListOf(batches[1])
  /\ Settled(cfEl)

\* C24 as stated: once every batch in flight has settled, the panels show
\* the merged set of the configuration persisted at that moment.
C24_SettledPanelsMatchStorage ==
  (NoBatchInFlight /\ cfEl # << >>) =>
    (Ids(cfEl) = MergedTunnelIds(localStorage) /\ Ids(aiEl) = MergedAiIds(localStorage))

\* C24, amended: every batch holds the merged set of the configuration
\* persisted when it was started; once every batch in flight has settled the
\* panels show the list of a finished batch (the one that re-rendered last),
\* and when that is not the merged set of the current configuration, a
\* batch of the current configuration has finished as well and was painted
\* over by an older one.
C24_SettledPanelsMatchLastBatch ==
  /\ [][\A b \in DOMAIN batches :
          StartsGatewayBatch(b) =>
            /\ Ids(batches'[b].cf) = MergedTunnelIds(localStorage')
            /\ Ids(batches'[b].ai) = MergedAiIds(localStorage')]_vars
  /\ []((NoBatchInFlight /\ cfEl # << >>) =>
          /\ \E b \in DOMAIN batches :
               batches[b].pc = "done" /\ ShowsListOf(batches[b]) /\ Settled(cfEl)
          /\ \E b \in DOMAIN batches :
               /\ batches[b].pc = "done"
               /\ Ids(batches[b].cf) = MergedTunnelIds(localStorage)
               /\ Ids(batches[b].ai) = MergedAiIds(localStorage))

\* every batch has settled and the panels show the list of an older
\* configuration: the stored list is empty again, the panels still show the
\* endpoint that was cleared
C24_Witness ==
  /\ NoBatchInFlight
  /\ StoredCustom(localStorage) = << >>
  /\ Len(cfEl) = Len(CF_ENDPOINTS) + 1
  /\ Settled(cfEl)

====
